---- MODULE Spec2Model ----
(***************************************************************************)
(* A model of advanced-vector/vector.h: RawMemory<T> and Vector<T>.        *)
(*                                                                         *)
(* The heap is a map from addresses to blocks of slots.  A slot is either  *)
(* raw (RawSlot) or holds a live T, whose value is a small integer.  Every *)
(* public operation of Vector is one action; the action runs the whole     *)
(* member function, including the destructors of its locals and the stack  *)
(* unwinding when an allocation or an element operation throws.            *)
(*                                                                         *)
(* The element type T is an instrumented type: its copy constructor, copy  *)
(* assignment and value-initialisation may throw, its move operations may  *)
(* throw unless the type's traits say otherwise, its destructor never      *)
(* throws, and a moved-from T holds MovedFrom.  Which operation throws is  *)
(* the input t of an action: the t-th fallible step of the call throws     *)
(* (t = 0: none).                                                          *)
(*                                                                         *)
(* Undefined behaviour (reading or assigning or destroying a raw slot) is  *)
(* a nondeterministic choice: the call crashes, or it carries on, a read   *)
(* of a raw slot yielding the garbage value the action's input g gives.    *)
(***************************************************************************)
EXTENDS Integers, Sequences, FiniteSets, TLC

\* ------------------------------------------------------------------ bounds

\* The largest capacity a buffer may have.
MaxCap == 4

\* The largest capacity while two vectors exist.
MaxPairCap == 2

\* Element values are 0..MaxVal.
MaxVal == 1

\* The vector objects of the program, and the local Vector rhs_copy of the
\* assignment operators.
VecOrder == <<"a", "b">>
Vecs == {VecOrder[i] : i \in 1..Len(VecOrder)}
Tmp == "tmp"
AllVecs == Vecs \cup {Tmp}

\* Heap addresses: one per vector object and one for a local RawMemory.
Addrs == 1..(Cardinality(Vecs) + 1)

\* A call makes at most MaxCap + 1 fallible steps.
ThrowAts == 0..(MaxCap + 1)

\* ------------------------------------------------------------------ memory

nullptr == 0

\* The content of a slot no T lives in.
RawSlot == -1

Values == 0..MaxVal

\* T{}: the value of a value-initialised T.
ValueInit == 0

\* The value a T holds after it was moved from.
MovedFrom == 0

FreeBlock == [used |-> FALSE, mem |-> <<>>]

\* The traits of T the code branches on, and std::is_copy_constructible_v.
\* nmc: is_nothrow_move_constructible_v, nma: is_nothrow_move_assignable_v,
\* cc: is_copy_constructible_v (a T that is not, has no copy assignment either).
Traits ==
    { [nmc |-> FALSE, nma |-> FALSE, cc |-> TRUE],
      [nmc |-> TRUE,  nma |-> TRUE,  cc |-> TRUE],
      [nmc |-> FALSE, nma |-> FALSE, cc |-> FALSE] }

\* RawMemory() = default and the state of a Vector that does not exist.
EmptyRaw == [buffer_ |-> nullptr, capacity_ |-> 0]
DeadVec == [alive |-> FALSE, buffer_ |-> nullptr, capacity_ |-> 0, size_ |-> 0]

\* Vector() = default.
EmptyVec == [alive |-> TRUE, buffer_ |-> nullptr, capacity_ |-> 0, size_ |-> 0]

NoRet == [buf |-> nullptr, off |-> 0]

VARIABLES
    heap,     \* [Addrs -> [used, mem]]: the blocks operator new handed out
    vecs,     \* [AllVecs -> [alive, buffer_, capacity_, size_]]
    traits,   \* the traits of T, fixed when the template is instantiated
    last      \* what the last call was and how it ended

vars == <<heap, vecs, traits, last>>

\* ------------------------------------------------- the state inside a call

\* The state a call works on: the heap and the vectors, the local RawMemory
\* new_data (nd), the countdown to the throwing step (t), the exception in
\* flight (exc) and the step that threw it, std::terminate called (term),
\* and what the call did to element lifetimes: constructions over a live
\* element (over), live elements in a released block (leak), destructor
\* calls on live elements (destroys), undefined behaviour (ub), a block
\* released twice (dblFree), the blocks allocated and released (allocs,
\* frees), the value x of the argument, the index arg of the element the
\* argument refers to when it is an element of the vector itself (-1: it is
\* an object outside the vectors), and the iterator returned (ret).
Enter(t, g) ==
    [heap |-> heap, vecs |-> vecs, tr |-> traits, nd |-> EmptyRaw,
     t |-> t, g |-> g, exc |-> FALSE, step |-> "none", term |-> FALSE,
     over |-> 0, leak |-> 0, destroys |-> 0, ub |-> FALSE, dblFree |-> FALSE,
     allocs |-> 0, frees |-> 0, x |-> 0, arg |-> -1, ret |-> NoRet]

\* The t-th fallible step throws.
Throws(m) == m.t = 1
Tick(m) == IF m.t > 0 THEN [m EXCEPT !.t = @ - 1] ELSE m
Throw(m, step) == [m EXCEPT !.t = 0, !.exc = TRUE, !.step = step]

\* A noexcept function: an exception that leaves it calls std::terminate.
Noexcept(m) == IF m.exc THEN [m EXCEPT !.term = TRUE] ELSE m

Slot(m, p, i) == m.heap[p].mem[i + 1]
IsLive(x) == x # RawSlot
LiveCount(mem) == Cardinality({i \in 1..Len(mem) : IsLive(mem[i])})

\* Reading the T at slot i of block p; a raw slot reads as garbage.
ReadVal(m, p, i) == IF IsLive(Slot(m, p, i)) THEN Slot(m, p, i) ELSE m.g[i + 1]
ReadUB(m, p, i) == ~IsLive(Slot(m, p, i))

\* RawMemory::Allocate, through RawMemory(size_t): the new block is nd.
LowestFree(m) ==
    CHOOSE p \in Addrs : ~m.heap[p].used /\ \A q \in Addrs : ~m.heap[q].used => p <= q
RawMemoryCtor(m, n) ==
    IF n = 0 THEN [m EXCEPT !.nd = EmptyRaw]
    ELSE IF Throws(m) THEN Throw(m, "alloc")
    ELSE LET p == LowestFree(m) IN
         [Tick(m) EXCEPT !.heap[p] = [used |-> TRUE, mem |-> [i \in 1..n |-> RawSlot]],
                         !.nd = [buffer_ |-> p, capacity_ |-> n],
                         !.allocs = @ + 1]

\* RawMemory::Deallocate: operator delete(buf).
Deallocate(m, p) ==
    IF p = nullptr THEN m
    ELSE IF ~m.heap[p].used THEN [m EXCEPT !.dblFree = TRUE]
    ELSE [m EXCEPT !.heap[p] = FreeBlock, !.frees = @ + 1,
                   !.leak = @ + LiveCount(m.heap[p].mem)]

\* A ~RawMemory that does not release the buffer.
RawMemoryDtor_NoRelease(m) == [m EXCEPT !.nd = EmptyRaw]

\* ~RawMemory of the local new_data.
RawMemoryDtor(m) == [Deallocate(m, m.nd.buffer_) EXCEPT !.nd = EmptyRaw]

\* ------------------------------------------------------ element operations

\* new (p + i) T(...) with value x, the constructor already having succeeded.
ConstructAt(m, p, i, x) ==
    [m EXCEPT !.heap[p].mem[i + 1] = x,
              !.over = IF IsLive(Slot(m, p, i)) THEN @ + 1 ELSE @]

\* (p + i)->~T()
DestroyAt(m, p, i) ==
    IF IsLive(Slot(m, p, i))
    THEN [m EXCEPT !.heap[p].mem[i + 1] = RawSlot, !.destroys = @ + 1]
    ELSE [m EXCEPT !.ub = TRUE]

\* new (dp + di) T(sp[si])
CopyConstruct(m, sp, si, dp, di, step) ==
    IF Throws(m) THEN Throw(m, step)
    ELSE [ConstructAt(Tick(m), dp, di, ReadVal(m, sp, si))
            EXCEPT !.ub = @ \/ ReadUB(m, sp, si)]

\* new (dp + di) T(std::move(sp[si]))
MoveConstruct(m, sp, si, dp, di, step) ==
    IF ~m.tr.nmc /\ Throws(m) THEN Throw(m, step)
    ELSE LET m1 == IF m.tr.nmc THEN m ELSE Tick(m)
             m2 == ConstructAt(m1, dp, di, ReadVal(m, sp, si))
         IN  IF ReadUB(m, sp, si) THEN [m2 EXCEPT !.ub = TRUE]
             ELSE [m2 EXCEPT !.heap[sp].mem[si + 1] = MovedFrom]

\* new (dp + di) T(x) from an argument outside the vectors: a copy, or a move
\* of it.
ArgConstruct(m, dp, di, x, how, step) ==
    IF (how = "copy" \/ ~m.tr.nmc) /\ Throws(m) THEN Throw(m, step)
    ELSE ConstructAt(IF how = "copy" \/ ~m.tr.nmc THEN Tick(m) ELSE m, dp, di, x)

\* new (dp + di) T()
ValueConstruct(m, dp, di, step) ==
    IF Throws(m) THEN Throw(m, step)
    ELSE ConstructAt(Tick(m), dp, di, ValueInit)

\* dp[di] = x, the assignment having succeeded; assigning to a raw slot is
\* undefined.
AssignAt(m, dp, di, x) ==
    [m EXCEPT !.heap[dp].mem[di + 1] = x, !.ub = @ \/ ReadUB(m, dp, di)]

\* dp[di] = sp[si]
CopyAssignElem(m, sp, si, dp, di, step) ==
    IF Throws(m) THEN Throw(m, step)
    ELSE [AssignAt(Tick(m), dp, di, ReadVal(m, sp, si))
            EXCEPT !.ub = @ \/ ReadUB(m, sp, si)]

\* dp[di] = std::move(sp[si])
MoveAssignElem(m, sp, si, dp, di, step) ==
    IF ~m.tr.nma /\ Throws(m) THEN Throw(m, step)
    ELSE LET m1 == IF m.tr.nma THEN m ELSE Tick(m)
             m2 == AssignAt(m1, dp, di, ReadVal(m, sp, si))
         IN  IF ReadUB(m, sp, si) THEN [m2 EXCEPT !.ub = TRUE]
             ELSE [m2 EXCEPT !.heap[sp].mem[si + 1] = MovedFrom]

\* T elem(args...) as a local, from an argument outside the vectors.
LocalConstruct(m, how, step) ==
    IF (how = "copy" \/ ~m.tr.nmc) /\ Throws(m) THEN Throw(m, step)
    ELSE IF how = "copy" \/ ~m.tr.nmc THEN Tick(m) ELSE m

\* dp[di] = std::move(elem), elem a local holding x.
LocalMoveAssign(m, dp, di, x, step) ==
    IF ~m.tr.nma /\ Throws(m) THEN Throw(m, step)
    ELSE AssignAt(IF m.tr.nma THEN m ELSE Tick(m), dp, di, x)

\* ------------------------------------------------------ <memory>, <algorithm>

\* std::destroy_n(p + i, n)
RECURSIVE destroy_n(_, _, _, _)
destroy_n(m, p, i, n) ==
    IF n = 0 THEN m ELSE destroy_n(DestroyAt(m, p, i), p, i + 1, n - 1)

\* std::uninitialized_copy_n(sp + si, n, dp + di), j elements done: a throwing
\* copy destroys the j elements constructed and rethrows.
RECURSIVE UninitCopyFrom(_, _, _, _, _, _, _)
UninitCopyFrom(m, sp, si, n, dp, di, j) ==
    IF j = n THEN m
    ELSE LET m1 == CopyConstruct(m, sp, si + j, dp, di + j, "reloc") IN
         IF m1.exc THEN destroy_n(m1, dp, di, j)
         ELSE UninitCopyFrom(m1, sp, si, n, dp, di, j + 1)
uninitialized_copy_n(m, sp, si, n, dp, di) == UninitCopyFrom(m, sp, si, n, dp, di, 0)

\* std::uninitialized_move_n(sp + si, n, dp + di)
RECURSIVE UninitMoveFrom(_, _, _, _, _, _, _)
UninitMoveFrom(m, sp, si, n, dp, di, j) ==
    IF j = n THEN m
    ELSE LET m1 == MoveConstruct(m, sp, si + j, dp, di + j, "reloc") IN
         IF m1.exc THEN destroy_n(m1, dp, di, j)
         ELSE UninitMoveFrom(m1, sp, si, n, dp, di, j + 1)
uninitialized_move_n(m, sp, si, n, dp, di) == UninitMoveFrom(m, sp, si, n, dp, di, 0)

\* std::uninitialized_value_construct_n(dp + di, n)
RECURSIVE UninitValueFrom(_, _, _, _, _)
UninitValueFrom(m, dp, di, n, j) ==
    IF j = n THEN m
    ELSE LET m1 == ValueConstruct(m, dp, di + j, "init") IN
         IF m1.exc THEN destroy_n(m1, dp, di, j)
         ELSE UninitValueFrom(m1, dp, di, n, j + 1)
uninitialized_value_construct_n(m, dp, di, n) == UninitValueFrom(m, dp, di, n, 0)

\* std::copy(sp + si, sp + si + n, dp + di): forward copy assignment; a
\* throwing assignment leaves the elements already assigned.
RECURSIVE CopyFrom(_, _, _, _, _, _, _)
CopyFrom(m, sp, si, n, dp, di, j) ==
    IF j = n \/ m.exc THEN m
    ELSE CopyFrom(CopyAssignElem(m, sp, si + j, dp, di + j, "assign"), sp, si, n, dp, di, j + 1)
std_copy(m, sp, si, n, dp, di) == CopyFrom(m, sp, si, n, dp, di, 0)

\* std::move(sp + si, sp + si + n, dp + di): forward move assignment.
RECURSIVE MoveFrom(_, _, _, _, _, _, _)
MoveFrom(m, sp, si, n, dp, di, j) ==
    IF j = n \/ m.exc THEN m
    ELSE MoveFrom(MoveAssignElem(m, sp, si + j, dp, di + j, "assign"), sp, si, n, dp, di, j + 1)
std_move(m, sp, si, n, dp, di) == MoveFrom(m, sp, si, n, dp, di, 0)

\* std::move_backward(p + first, p + lst, p + dlast): the last element first.
RECURSIVE move_backward(_, _, _, _, _)
move_backward(m, p, first, lst, dlast) ==
    IF first = lst \/ m.exc THEN m
    ELSE move_backward(MoveAssignElem(m, p, lst - 1, p, dlast - 1, "shift"),
                       p, first, lst - 1, dlast - 1)

\* --------------------------------------------------------------- RawMemory

\* RawMemory::Swap between the data_ of two vectors.
RawSwap(m, v, o) ==
    [m EXCEPT !.vecs[v].buffer_ = m.vecs[o].buffer_,
              !.vecs[v].capacity_ = m.vecs[o].capacity_,
              !.vecs[o].buffer_ = m.vecs[v].buffer_,
              !.vecs[o].capacity_ = m.vecs[v].capacity_]

\* RawMemory::Swap between the data_ of a vector and the local new_data.
RawSwapLocal(m, v) ==
    [m EXCEPT !.vecs[v].buffer_ = m.nd.buffer_,
              !.vecs[v].capacity_ = m.nd.capacity_,
              !.nd = [buffer_ |-> m.vecs[v].buffer_, capacity_ |-> m.vecs[v].capacity_]]

\* RawMemory(RawMemory&& other): the new object starts as RawMemory() and
\* swaps with other.  v does not exist yet, its data_ is the default one.
RawMemoryMoveCtor(m, v, o) ==
    RawSwap([m EXCEPT !.vecs[v].buffer_ = nullptr, !.vecs[v].capacity_ = 0], v, o)

\* RawMemory::operator=(RawMemory&& rhs)
RawMemoryMoveAssign(m, v, o) == RawSwap(m, v, o)

\* ------------------------------------------------------------------ Vector

\* Vector::Destroy and Vector::DestroyN(buf, n): Destroy(buf) is called n
\* times, on buf itself each time.
RECURSIVE DestroyN(_, _, _, _)
DestroyN(m, p, n, i) ==
    IF i = n THEN m ELSE DestroyN(DestroyAt(m, p, 0), p, n, i + 1)

\* Vector::~Vector, then ~RawMemory of data_.
VectorDtor(m, v) ==
    LET V == m.vecs[v]
        m1 == DestroyN(m, V.buffer_, V.size_, 0)
        m2 == Deallocate(m1, V.buffer_)
    IN  [m2 EXCEPT !.vecs[v] = DeadVec]

\* Vector::Vector(size_t size).  A throwing element constructor unwinds
\* through ~RawMemory of data_.
VectorSized(m, v, n) ==
    LET m1 == RawMemoryCtor(m, n)
        m2 == IF m1.exc THEN m1
              ELSE uninitialized_value_construct_n(m1, m1.nd.buffer_, 0, n)
    IN  IF m1.exc THEN m1
        ELSE IF m2.exc THEN RawMemoryDtor(m2)
        ELSE [m2 EXCEPT !.vecs[v] = [alive |-> TRUE, buffer_ |-> m1.nd.buffer_,
                                     capacity_ |-> n, size_ |-> n],
                        !.nd = EmptyRaw]

\* Vector::Vector(const Vector& other)
VectorCopy(m, v, o) ==
    LET O == m.vecs[o]
        m1 == RawMemoryCtor(m, O.size_)
        m2 == IF m1.exc THEN m1
              ELSE uninitialized_copy_n(m1, O.buffer_, 0, O.size_, m1.nd.buffer_, 0)
    IN  IF m1.exc THEN m1
        ELSE IF m2.exc THEN RawMemoryDtor(m2)
        ELSE [m2 EXCEPT !.vecs[v] = [alive |-> TRUE, buffer_ |-> m1.nd.buffer_,
                                     capacity_ |-> O.size_, size_ |-> O.size_],
                        !.nd = EmptyRaw]

\* A move constructor that forgets other.size_ = 0.
VectorMove_KeepSourceSize(m, v, o) ==
    LET m1 == RawMemoryMoveCtor([m EXCEPT !.vecs[v] = EmptyVec], v, o)
    IN  [m1 EXCEPT !.vecs[v].size_ = m.vecs[o].size_]

\* Vector::Vector(Vector&& other) noexcept
VectorMove(m, v, o) ==
    LET m1 == RawMemoryMoveCtor([m EXCEPT !.vecs[v] = EmptyVec], v, o)
    IN  [m1 EXCEPT !.vecs[v].size_ = m.vecs[o].size_, !.vecs[o].size_ = 0]

\* Vector::Swap
VectorSwap(m, v, o) ==
    LET m1 == RawSwap(m, v, o)
    IN  [m1 EXCEPT !.vecs[v].size_ = m.vecs[o].size_, !.vecs[o].size_ = m.vecs[v].size_]

\* Vector::operator=(const Vector& rhs), this = v, rhs = o.
CopyAssignInPlace(m, v, o) ==
    LET V == m.vecs[v]
        O == m.vecs[o]
        \* if(rhs.size_ < size_)
        m1 == IF O.size_ < V.size_
              THEN std_copy(m, O.buffer_, 0, O.size_, V.buffer_, 0)
              ELSE m
        m2 == IF O.size_ < V.size_ /\ ~m1.exc
              THEN destroy_n(m1, V.buffer_, O.size_, V.size_ - O.size_)
              ELSE m1
        \* if(rhs.size_ >= size_): the new elements are constructed from
        \* data_.GetAddress(), not from data_ + size_.
        m3 == IF O.size_ >= V.size_ /\ ~m2.exc
              THEN std_copy(m2, O.buffer_, 0, V.size_, V.buffer_, 0)
              ELSE m2
        m4 == IF O.size_ >= V.size_ /\ ~m3.exc
              THEN uninitialized_copy_n(m3, O.buffer_, V.size_, O.size_ - V.size_,
                                        V.buffer_, 0)
              ELSE m3
    IN  IF m4.exc THEN m4 ELSE [m4 EXCEPT !.vecs[v].size_ = O.size_]

\* A copy assignment that always copies and swaps.
VectorCopyAssign_AlwaysSwap(m, v, o) ==
    IF v = o THEN m
    ELSE LET m1 == VectorCopy(m, Tmp, o)
         IN  IF m1.exc THEN m1 ELSE VectorDtor(VectorSwap(m1, v, Tmp), Tmp)

VectorCopyAssign(m, v, o) ==
    IF v = o THEN m
    ELSE IF m.vecs[o].size_ > m.vecs[v].capacity_
    THEN LET m1 == VectorCopy(m, Tmp, o)
         IN  IF m1.exc THEN m1 ELSE VectorDtor(VectorSwap(m1, v, Tmp), Tmp)
    ELSE CopyAssignInPlace(m, v, o)

\* A move assignment that takes the storage and forgets size_ = rhs.size_.
VectorMoveAssign_KeepSize(m, v, o) ==
    IF v = o THEN m
    ELSE IF m.vecs[o].size_ > m.vecs[v].capacity_
    THEN VectorDtor(VectorSwap(VectorMove(m, Tmp, o), v, Tmp), Tmp)
    ELSE RawMemoryMoveAssign(m, v, o)

\* Vector::operator=(Vector&& rhs) noexcept
VectorMoveAssign(m, v, o) ==
    IF v = o THEN m
    ELSE IF m.vecs[o].size_ > m.vecs[v].capacity_
    THEN VectorDtor(VectorSwap(VectorMove(m, Tmp, o), v, Tmp), Tmp)
    ELSE [RawMemoryMoveAssign(m, v, o) EXCEPT !.vecs[v].size_ = m.vecs[o].size_]

\* A relocation that moves whatever the traits of T are.
Uninitialized_AlwaysMove(m, sp, si, n, dp, di) ==
    uninitialized_move_n(m, sp, si, n, dp, di)

\* Vector::Uninitialized
Uninitialized(m, sp, si, n, dp, di) ==
    IF m.tr.nmc \/ ~m.tr.cc
    THEN uninitialized_move_n(m, sp, si, n, dp, di)
    ELSE uninitialized_copy_n(m, sp, si, n, dp, di)

\* Vector::DestroyAndSwap
DestroyAndSwap(m, v) ==
    RawSwapLocal(destroy_n(m, m.vecs[v].buffer_, 0, m.vecs[v].size_), v)

\* Vector::Reserve
VectorReserve(m, v, n) ==
    IF n < m.vecs[v].capacity_ THEN m
    ELSE LET V == m.vecs[v]
             m1 == RawMemoryCtor(m, n)
             m2 == IF m1.exc THEN m1
                   ELSE Uninitialized(m1, V.buffer_, 0, V.size_, m1.nd.buffer_, 0)
             m3 == IF m2.exc THEN m2 ELSE DestroyAndSwap(m2, v)
         IN  IF m1.exc THEN m1 ELSE RawMemoryDtor(m3)

\* Vector::Resize
VectorResize(m, v, n) ==
    LET V == m.vecs[v]
        \* if(new_size < size_)
        m1 == IF n < V.size_
              THEN [destroy_n(m, V.buffer_, n, V.size_ - n) EXCEPT !.vecs[v].size_ = n]
              ELSE m
        \* if(new_size > size_)
        m2 == IF n > m1.vecs[v].size_ THEN VectorReserve(m1, v, n) ELSE m1
        m3 == IF n > m1.vecs[v].size_ /\ ~m2.exc
              THEN uninitialized_value_construct_n(m2, m2.vecs[v].buffer_, V.size_,
                                                   n - V.size_)
              ELSE m2
    IN  IF n > m1.vecs[v].size_ /\ ~m3.exc THEN [m3 EXCEPT !.vecs[v].size_ = n] ELSE m3

\* A growth by one slot.
GrowTo_PlusOne(size) == size + 1

\* The capacity a growing insertion allocates: size_ == 0 ? 1 : size_ * 2.
GrowTo(size) == IF size = 0 THEN 1 ELSE size * 2

\* A growing insertion that relocates [k, size) to slot k, not to slot k + 1.
ReallocationEmplace_ShiftOff(m, v, k, x, how) ==
    LET V == m.vecs[v]
        m1 == RawMemoryCtor(m, IF V.size_ = 0 THEN 1 ELSE V.size_ * 2)
        nb == m1.nd.buffer_
        m2 == IF m1.exc THEN m1 ELSE ArgConstruct(m1, nb, k, x, how, "ctor")
        m3 == IF m2.exc THEN m2
              ELSE uninitialized_copy_n(m2, V.buffer_, 0, k, nb, 0)
        m4 == IF m3.exc THEN m3
              ELSE uninitialized_copy_n(m3, V.buffer_, k, V.size_ - k, nb, k)
        m5 == IF m4.exc THEN m4
              ELSE [destroy_n(m4, V.buffer_, 0, V.size_)
                      EXCEPT !.vecs[v].buffer_ = nb,
                             !.vecs[v].capacity_ = m1.nd.capacity_,
                             !.nd = [buffer_ |-> V.buffer_, capacity_ |-> V.capacity_]]
        m6 == IF m5.exc THEN m5
              ELSE [m5 EXCEPT !.vecs[v].size_ = @ + 1, !.ret = [buf |-> nb, off |-> k]]
    IN  IF m1.exc THEN m1 ELSE RawMemoryDtor(m6)

\* Vector::ReallocationEmplace at begin() + k; the argument is an object
\* outside the vectors holding x, copied or moved.
ReallocationEmplace(m, v, k, x, how) ==
    LET V == m.vecs[v]
        m1 == RawMemoryCtor(m, GrowTo(V.size_))
        nb == m1.nd.buffer_
        m2 == IF m1.exc THEN m1 ELSE ArgConstruct(m1, nb, k, x, how, "ctor")
        m3 == IF m2.exc THEN m2 ELSE Uninitialized(m2, V.buffer_, 0, k, nb, 0)
        m4 == IF m3.exc THEN m3
              ELSE Uninitialized(m3, V.buffer_, k, V.size_ - k, nb, k + 1)
        m5 == IF m4.exc THEN m4 ELSE DestroyAndSwap(m4, v)
        m6 == IF m5.exc THEN m5
              ELSE [m5 EXCEPT !.vecs[v].size_ = @ + 1, !.ret = [buf |-> nb, off |-> k]]
    IN  IF m1.exc THEN m1 ELSE RawMemoryDtor(m6)

\* Vector::NoReallocationEmplace at begin() + k
NoReallocationEmplace(m, v, k, x, how) ==
    LET V == m.vecs[v]
        p == V.buffer_
        \* pos == end()
        e1 == ArgConstruct(m, p, V.size_, x, how, "ctor")
        \* else
        m1 == LocalConstruct(m, how, "ctor")
        m2 == IF m1.exc THEN m1
              ELSE MoveConstruct(m1, p, V.size_ - 1, p, V.size_, "tail")
        m3 == IF m2.exc THEN m2 ELSE move_backward(m2, p, k, V.size_ - 1, V.size_)
        m4 == IF m3.exc THEN m3 ELSE LocalMoveAssign(m3, p, k, x, "place")
        m5 == IF k = V.size_ THEN e1 ELSE m4
    IN  IF m5.exc THEN m5
        ELSE [m5 EXCEPT !.vecs[v].size_ = @ + 1, !.ret = [buf |-> p, off |-> k]]

\* Vector::Emplace, and Vector::Insert through it.
VectorEmplace(m, v, k, x, how) ==
    IF m.vecs[v].size_ = m.vecs[v].capacity_
    THEN ReallocationEmplace(m, v, k, x, how)
    ELSE NoReallocationEmplace(m, v, k, x, how)

\* Vector::EmplaceBack, and Vector::PushBack(const T&) through it.
VectorEmplaceBack(m, v, x, how) == VectorEmplace(m, v, m.vecs[v].size_, x, how)

\* Vector::ReallocationEmplace at begin() + k with the argument v[i], a
\* const T& to slot i of the vector's own buffer: the new element is copy
\* constructed from that slot when line 295 runs.
ReallocationEmplaceRef(m, v, k, i) ==
    LET V == m.vecs[v]
        m1 == RawMemoryCtor(m, GrowTo(V.size_))
        nb == m1.nd.buffer_
        m2 == IF m1.exc THEN m1 ELSE CopyConstruct(m1, V.buffer_, i, nb, k, "ctor")
        m3 == IF m2.exc THEN m2 ELSE Uninitialized(m2, V.buffer_, 0, k, nb, 0)
        m4 == IF m3.exc THEN m3
              ELSE Uninitialized(m3, V.buffer_, k, V.size_ - k, nb, k + 1)
        m5 == IF m4.exc THEN m4 ELSE DestroyAndSwap(m4, v)
        m6 == IF m5.exc THEN m5
              ELSE [m5 EXCEPT !.vecs[v].size_ = @ + 1, !.ret = [buf |-> nb, off |-> k]]
    IN  IF m1.exc THEN m1 ELSE RawMemoryDtor(m6)

\* An in-place insertion of v[i] without the temporary: the slot the
\* argument refers to is read after the elements were shifted.
NoReallocationEmplaceRef_NoTemporary(m, v, k, i) ==
    LET V == m.vecs[v]
        p == V.buffer_
        e1 == CopyConstruct(m, p, i, p, V.size_, "ctor")
        m2 == MoveConstruct(m, p, V.size_ - 1, p, V.size_, "tail")
        m3 == IF m2.exc THEN m2 ELSE move_backward(m2, p, k, V.size_ - 1, V.size_)
        m4 == IF m3.exc THEN m3 ELSE CopyAssignElem(m3, p, i, p, k, "place")
        m5 == IF k = V.size_ THEN e1 ELSE m4
    IN  IF m5.exc THEN m5
        ELSE [m5 EXCEPT !.vecs[v].size_ = @ + 1, !.ret = [buf |-> p, off |-> k]]

\* Vector::NoReallocationEmplace at begin() + k with the argument v[i]: at
\* end() the element is copy constructed from slot i; elsewhere the local
\* elem is copy constructed from slot i (line 309) before anything moves.
NoReallocationEmplaceRef(m, v, k, i) ==
    LET V == m.vecs[v]
        p == V.buffer_
        \* pos == end()
        e1 == CopyConstruct(m, p, i, p, V.size_, "ctor")
        \* else: T elem(v[i])
        elem == ReadVal(m, p, i)
        m1 == IF Throws(m) THEN Throw(m, "ctor")
              ELSE [Tick(m) EXCEPT !.ub = @ \/ ReadUB(m, p, i)]
        m2 == IF m1.exc THEN m1
              ELSE MoveConstruct(m1, p, V.size_ - 1, p, V.size_, "tail")
        m3 == IF m2.exc THEN m2 ELSE move_backward(m2, p, k, V.size_ - 1, V.size_)
        m4 == IF m3.exc THEN m3 ELSE LocalMoveAssign(m3, p, k, elem, "place")
        m5 == IF k = V.size_ THEN e1 ELSE m4
    IN  IF m5.exc THEN m5
        ELSE [m5 EXCEPT !.vecs[v].size_ = @ + 1, !.ret = [buf |-> p, off |-> k]]

\* Vector::Emplace(begin() + k, v[i]), and Insert(begin() + k, v[i]).
VectorEmplaceRef(m, v, k, i) ==
    IF m.vecs[v].size_ = m.vecs[v].capacity_
    THEN ReallocationEmplaceRef(m, v, k, i)
    ELSE NoReallocationEmplaceRef(m, v, k, i)

\* Vector::EmplaceBack(v[i]), and PushBack(v[i]) through it.
VectorEmplaceBackRef(m, v, i) == VectorEmplaceRef(m, v, m.vecs[v].size_, i)

\* Vector::PushBack(T&& value)
VectorPushBackMove(m, v, x) ==
    LET V == m.vecs[v]
        m1 == RawMemoryCtor(m, GrowTo(V.size_))
        nb == m1.nd.buffer_
        m2 == IF m1.exc THEN m1 ELSE ArgConstruct(m1, nb, V.size_, x, "move", "ctor")
        m3 == IF m2.exc THEN m2 ELSE Uninitialized(m2, V.buffer_, 0, V.size_, nb, 0)
        m4 == IF m3.exc THEN m3 ELSE DestroyAndSwap(m3, v)
        m5 == IF m4.exc THEN m4 ELSE [m4 EXCEPT !.vecs[v].size_ = @ + 1]
        \* size_ < data_.Capacity()
        e1 == ArgConstruct(m, V.buffer_, V.size_, x, "move", "ctor")
        e2 == IF e1.exc THEN e1 ELSE [e1 EXCEPT !.vecs[v].size_ = @ + 1]
    IN  IF V.size_ = V.capacity_
        THEN (IF m1.exc THEN m1 ELSE RawMemoryDtor(m5))
        ELSE e2

\* Vector::PopBack
VectorPopBack(m, v) ==
    [destroy_n(m, m.vecs[v].buffer_, m.vecs[v].size_ - 1, 1)
        EXCEPT !.vecs[v].size_ = @ - 1]

\* An Erase that drops the last element without shifting the tail.
VectorErase_NoShift(m, v, k) ==
    Noexcept([VectorPopBack(m, v)
                EXCEPT !.ret = [buf |-> m.vecs[v].buffer_, off |-> k]])

\* Vector::Erase(begin() + k) noexcept
VectorErase(m, v, k) ==
    LET V == m.vecs[v]
        p == V.buffer_
        m1 == IF m.tr.nma
              THEN std_move(m, p, k + 1, V.size_ - (k + 1), p, k)
              ELSE std_copy(m, p, k + 1, V.size_ - (k + 1), p, k)
        m2 == IF m1.exc THEN m1
              ELSE [VectorPopBack(m1, v) EXCEPT !.ret = [buf |-> p, off |-> k]]
    IN  Noexcept(m2)

\* ------------------------------------------------------------ observations

\* The slots [0, size) of a vector, as a sequence.
ContentsIn(hp, V) == [i \in 1..V.size_ |-> hp[V.buffer_].mem[i]]
Contents(v) == ContentsIn(heap, vecs[v])

\* Invariants 1 and 2 of a vector: slots [0, size) hold live elements, slots
\* [size, capacity) are raw, in a block of capacity slots that data_ owns.
WellFormedIn(hp, V) ==
    /\ V.size_ <= V.capacity_
    /\ (V.buffer_ = nullptr) <=> (V.capacity_ = 0)
    /\ V.buffer_ # nullptr =>
         /\ hp[V.buffer_].used
         /\ Len(hp[V.buffer_].mem) = V.capacity_
         /\ \A i \in 1..V.capacity_ : IsLive(hp[V.buffer_].mem[i]) <=> i <= V.size_
WellFormed(v) == WellFormedIn(heap, vecs[v])

\* The garbage a call may read from the vectors S: a value for every raw
\* slot below the size of one of them (and 0, never read, elsewhere).
RawBelowSize(v, i) ==
    /\ vecs[v].alive /\ i <= vecs[v].size_ /\ vecs[v].buffer_ # nullptr
    /\ ~IsLive(heap[vecs[v].buffer_].mem[i])
Garbage(S) ==
    {g \in [1..MaxCap -> Values] :
        \A i \in 1..MaxCap : g[i] # 0 => \E v \in S : RawBelowSize(v, i)}

\* No call is in progress or waiting to be looked at.
NoCall ==
    [op |-> "none", v |-> "a", o |-> "a", br |-> "none", k |-> 0,
     wf |-> TRUE, moved |-> {}, outcome |-> "ok", step |-> "none",
     over |-> 0, leak |-> 0, destroys |-> 0, ub |-> FALSE,
     dblFree |-> FALSE, allocs |-> 0, frees |-> 0, x |-> 0, arg |-> -1,
     ret |-> NoRet]

\* std::terminate was called, or undefined behaviour crashed the program.
Aborted == last.outcome \in {"terminate", "crash"}

Outcome(m) == IF m.term THEN "terminate" ELSE IF m.exc THEN "throw" ELSE "ok"

\* Addresses carry no meaning beyond which block they name, and the code
\* compares no two blocks' addresses, so the state after a call is kept up to
\* a renaming of the blocks: the block of the first vector comes first, then
\* the block of the second, then any block no vector owns.
AddrKey(m, p) ==
    IF \E i \in 1..Len(VecOrder) : m.vecs[VecOrder[i]].buffer_ = p
    THEN CHOOSE i \in 1..Len(VecOrder) :
            /\ m.vecs[VecOrder[i]].buffer_ = p
            /\ \A j \in 1..(i - 1) : m.vecs[VecOrder[j]].buffer_ # p
    ELSE Len(VecOrder) + p
Renamed(m, p) ==
    IF p = nullptr THEN nullptr
    ELSE 1 + Cardinality({q \in Addrs : m.heap[q].used /\ AddrKey(m, q) < AddrKey(m, p)})
RenamedHeap(m) ==
    [a \in Addrs |->
        IF \E p \in Addrs : m.heap[p].used /\ Renamed(m, p) = a
        THEN m.heap[CHOOSE p \in Addrs : m.heap[p].used /\ Renamed(m, p) = a]
        ELSE FreeBlock]
RenamedVecs(m) ==
    [v \in AllVecs |-> [m.vecs[v] EXCEPT !.buffer_ = Renamed(m, @)]]

\* The record of a call: the operation, its object v and its other vector o,
\* the branch br it took, its position or size argument k, whether v and o
\* were well formed before it (wf), the vectors whose begin() it changed
\* (moved), and what Enter lists.
Record(op, v, o, br, k, m) ==
    [op |-> op, v |-> v, o |-> o, br |-> br, k |-> k,
     wf |-> \A w \in {v, o} : vecs[w].alive => WellFormed(w),
     moved |-> {w \in Vecs : m.vecs[w].buffer_ # vecs[w].buffer_},
     outcome |-> Outcome(m), step |-> m.step,
     over |-> m.over, leak |-> m.leak, destroys |-> m.destroys, ub |-> m.ub,
     dblFree |-> m.dblFree, allocs |-> m.allocs, frees |-> m.frees, x |-> m.x,
     arg |-> m.arg,
     ret |-> [m.ret EXCEPT !.buf = Renamed(m, @)]]

\* The end of a call whose t-th step, if t > 0, did throw: its effect, or,
\* when it ran into undefined behaviour, possibly a crash.
Finish(op, v, o, br, k, m) ==
    /\ m.t = 0
    /\ \/ /\ heap' = RenamedHeap(m)
          /\ vecs' = RenamedVecs(m)
          /\ last' = Record(op, v, o, br, k, m)
       \/ /\ m.ub
          /\ UNCHANGED <<heap, vecs>>
          /\ last' = [Record(op, v, o, br, k, m) EXCEPT !.outcome = "crash"]
    /\ UNCHANGED traits

\* ----------------------------------------------------------------- actions

\* The bounds on the calls: a vector that exists beside another one has at
\* most MaxPairCap slots, a vector alone at most MaxCap.
Others(v) == {w \in Vecs \ {v} : vecs[w].alive}
CapBound(v) == IF Others(v) = {} THEN MaxCap ELSE MaxPairCap
CanConstruct(v) ==
    /\ last = NoCall
    /\ ~vecs[v].alive
    /\ \A w \in Others(v) : vecs[w].capacity_ <= MaxPairCap

Init ==
    /\ heap = [p \in Addrs |-> FreeBlock]
    /\ vecs = [v \in AllVecs |-> DeadVec]
    /\ traits \in Traits
    /\ last = NoCall

Construct(v) ==
    /\ last = NoCall
    /\ CanConstruct(v)
    /\ Finish("Vector()", v, v, "none", 0,
              [Enter(0, [i \in 1..MaxCap |-> 0]) EXCEPT !.vecs[v] = EmptyVec])

ConstructSized(v, n, t) ==
    /\ last = NoCall
    /\ CanConstruct(v) /\ n <= CapBound(v)
    /\ Finish("Vector(n)", v, v, "none", n,
              VectorSized(Enter(t, [i \in 1..MaxCap |-> 0]), v, n))

ConstructCopy(v, o, t) ==
    /\ last = NoCall
    /\ CanConstruct(v) /\ vecs[o].alive /\ traits.cc
    /\ \E g \in Garbage({o}) :
       Finish("Vector(const&)", v, o, "none", 0, VectorCopy(Enter(t, g), v, o))

ConstructMove(v, o) ==
    /\ last = NoCall
    /\ CanConstruct(v) /\ vecs[o].alive
    /\ Finish("Vector(&&)", v, o, "none", 0,
              Noexcept(VectorMove(Enter(0, [i \in 1..MaxCap |-> 0]), v, o)))

Destruct(v) ==
    /\ last = NoCall
    /\ vecs[v].alive
    /\ Finish("~Vector", v, v, "none", vecs[v].size_,
              VectorDtor(Enter(0, [i \in 1..MaxCap |-> 0]), v))

CopyAssignBranch(v, o) ==
    IF v = o THEN "self"
    ELSE IF vecs[o].size_ > vecs[v].capacity_ THEN "swap"
    ELSE IF vecs[o].size_ < vecs[v].size_ THEN "shrink"
    ELSE "extend"

CopyAssign(v, o, t) ==
    /\ last = NoCall
    /\ vecs[v].alive /\ vecs[o].alive /\ traits.cc
    /\ \E g \in Garbage({o}) :
       Finish("operator=(const&)", v, o, CopyAssignBranch(v, o), vecs[v].size_,
              VectorCopyAssign(Enter(t, g), v, o))

MoveAssignBranch(v, o) ==
    IF v = o THEN "self"
    ELSE IF vecs[o].size_ > vecs[v].capacity_ THEN "swap"
    ELSE "steal"

MoveAssign(v, o) ==
    /\ last = NoCall
    /\ vecs[v].alive /\ vecs[o].alive
    /\ Finish("operator=(&&)", v, o, MoveAssignBranch(v, o), vecs[v].size_,
              Noexcept(VectorMoveAssign(Enter(0, [i \in 1..MaxCap |-> 0]), v, o)))

Swap(v, o) ==
    /\ last = NoCall
    /\ vecs[v].alive /\ vecs[o].alive
    /\ Finish("Swap", v, o, "none", 0,
              Noexcept(VectorSwap(Enter(0, [i \in 1..MaxCap |-> 0]), v, o)))

ReserveBranch(v, n) ==
    IF n < vecs[v].capacity_ THEN "noop"
    ELSE IF n = vecs[v].capacity_ THEN "same" ELSE "grow"

Reserve(v, n, t) ==
    /\ last = NoCall
    /\ vecs[v].alive /\ n <= CapBound(v)
    /\ \E g \in Garbage({v}) :
       Finish("Reserve", v, v, ReserveBranch(v, n), n, VectorReserve(Enter(t, g), v, n))

ResizeBranch(v, n) ==
    IF n < vecs[v].size_ THEN "shrink"
    ELSE IF n = vecs[v].size_ THEN "same" ELSE "grow"

Resize(v, n, t) ==
    /\ last = NoCall
    /\ vecs[v].alive /\ n <= CapBound(v)
    /\ \E g \in Garbage({v}) :
       Finish("Resize", v, v, ResizeBranch(v, n), n, VectorResize(Enter(t, g), v, n))

EmplaceBranch(v, k) ==
    IF vecs[v].size_ = vecs[v].capacity_ THEN "grow"
    ELSE IF k = vecs[v].size_ THEN "end" ELSE "mid"

\* A growing insertion stays within the model's largest capacity.
CanInsert(v) ==
    /\ vecs[v].alive
    /\ vecs[v].size_ = vecs[v].capacity_ => GrowTo(vecs[v].size_) <= CapBound(v)

\* Emplace(begin() + k, x), Insert(begin() + k, x) (how = "copy") and
\* Insert(begin() + k, std::move(x)) (how = "move").
Emplace(v, k, x, how, t) ==
    /\ last = NoCall
    /\ CanInsert(v) /\ k <= vecs[v].size_
    /\ how = "copy" => traits.cc
    /\ \E g \in Garbage({v}) :
       Finish("Emplace", v, v, EmplaceBranch(v, k), k,
              VectorEmplace([Enter(t, g) EXCEPT !.x = x], v, k, x, how))

\* EmplaceBack(x), PushBack(const T&) (how = "copy").
EmplaceBack(v, x, how, t) ==
    /\ last = NoCall
    /\ CanInsert(v)
    /\ how = "copy" => traits.cc
    /\ \E g \in Garbage({v}) :
       Finish("EmplaceBack", v, v, EmplaceBranch(v, vecs[v].size_), vecs[v].size_,
              VectorEmplaceBack([Enter(t, g) EXCEPT !.x = x], v, x, how))

\* The value of v[i] when the call starts.
ArgValue(v, i, g) ==
    IF IsLive(heap[vecs[v].buffer_].mem[i + 1])
    THEN heap[vecs[v].buffer_].mem[i + 1] ELSE g[i + 1]

\* Emplace(begin() + k, v[i]) and Insert(begin() + k, v[i]): the argument is
\* an element of the vector itself.
EmplaceRef(v, k, i, t) ==
    /\ last = NoCall
    /\ CanInsert(v) /\ k <= vecs[v].size_ /\ i < vecs[v].size_
    /\ traits.cc
    /\ \E g \in Garbage({v}) :
       Finish("Emplace", v, v, EmplaceBranch(v, k), k,
              VectorEmplaceRef([Enter(t, g) EXCEPT !.x = ArgValue(v, i, g), !.arg = i],
                               v, k, i))

\* EmplaceBack(v[i]) and PushBack(v[i]).
EmplaceBackRef(v, i, t) ==
    /\ last = NoCall
    /\ CanInsert(v) /\ i < vecs[v].size_
    /\ traits.cc
    /\ \E g \in Garbage({v}) :
       Finish("EmplaceBack", v, v, EmplaceBranch(v, vecs[v].size_), vecs[v].size_,
              VectorEmplaceBackRef([Enter(t, g) EXCEPT !.x = ArgValue(v, i, g),
                                                      !.arg = i], v, i))

PushBackMove(v, x, t) ==
    /\ last = NoCall
    /\ CanInsert(v)
    /\ \E g \in Garbage({v}) :
       Finish("PushBack(T&&)", v, v, EmplaceBranch(v, vecs[v].size_), vecs[v].size_,
              VectorPushBackMove([Enter(t, g) EXCEPT !.x = x], v, x))

PopBack(v) ==
    /\ last = NoCall
    /\ vecs[v].alive /\ vecs[v].size_ > 0
    /\ Finish("PopBack", v, v, "none", 0,
              Noexcept(VectorPopBack(Enter(0, [i \in 1..MaxCap |-> 0]), v)))

\* Erase(begin() + k); std::copy needs a copy-assignable T.
Erase(v, k, t) ==
    /\ last = NoCall
    /\ vecs[v].alive /\ k < vecs[v].size_
    /\ traits.nma \/ traits.cc
    /\ \E g \in Garbage({v}) :
       Finish("Erase", v, v, IF traits.nma THEN "move" ELSE "copy", k,
              VectorErase(Enter(t, g), v, k))

\* The caller has looked at the outcome of the call and goes on; a program
\* that aborted makes no further call.
Return ==
    /\ last # NoCall /\ ~Aborted
    /\ last' = NoCall
    /\ UNCHANGED <<heap, vecs, traits>>

Next ==
    \/ Return
    \/ \E v \in Vecs : Construct(v)
    \/ \E v \in Vecs, n \in 0..MaxCap, t \in ThrowAts : ConstructSized(v, n, t)
    \/ \E v \in Vecs, o \in Vecs, t \in ThrowAts : ConstructCopy(v, o, t)
    \/ \E v \in Vecs, o \in Vecs : ConstructMove(v, o)
    \/ \E v \in Vecs : Destruct(v)
    \/ \E v \in Vecs, o \in Vecs, t \in ThrowAts : CopyAssign(v, o, t)
    \/ \E v \in Vecs, o \in Vecs : MoveAssign(v, o)
    \/ \E v \in Vecs, o \in Vecs : Swap(v, o)
    \/ \E v \in Vecs, n \in 0..MaxCap, t \in ThrowAts : Reserve(v, n, t)
    \/ \E v \in Vecs, n \in 0..MaxCap, t \in ThrowAts : Resize(v, n, t)
    \/ \E v \in Vecs, k \in 0..MaxCap, x \in Values, how \in {"copy", "move"},
          t \in ThrowAts : Emplace(v, k, x, how, t)
    \/ \E v \in Vecs, x \in Values, how \in {"copy", "move"}, t \in ThrowAts :
          EmplaceBack(v, x, how, t)
    \/ \E v \in Vecs, k \in 0..MaxCap, i \in 0..(MaxCap - 1), t \in ThrowAts :
          EmplaceRef(v, k, i, t)
    \/ \E v \in Vecs, i \in 0..(MaxCap - 1), t \in ThrowAts : EmplaceBackRef(v, i, t)
    \/ \E v \in Vecs, x \in Values, t \in ThrowAts : PushBackMove(v, x, t)
    \/ \E v \in Vecs : PopBack(v)
    \/ \E v \in Vecs, k \in 0..MaxCap, t \in ThrowAts : Erase(v, k, t)

Spec == Init /\ [][Next]_vars

\* -------------------------------------------------------------- properties

Called(op) == last.op = op /\ last.outcome # "crash"
Involved == {w \in {last.v, last.o} : vecs[w].alive}

\* C1: after every public operation, every vector involved in it, target and
\* source alike, has 0 <= Size() <= Capacity().
C1_SizeWithinCapacity ==
    \A w \in Vecs : vecs[w].alive =>
        /\ 0 <= vecs[w].size_
        /\ vecs[w].size_ <= vecs[w].capacity_

\* A move assignment that took the storage of a full, non-empty source: the
\* source keeps its size and gets the target's old capacity.
C1_Witness ==
    /\ Called("operator=(&&)") /\ last.br = "steal" /\ last.outcome = "ok"
    /\ vecs[last.o].size_ > 0
    /\ vecs[last.o].size_ = vecs[last.o].capacity_
    /\ vecs[last.v].size_ < vecs[last.v].capacity_

\* C2: after every public operation that completes without failure, on
\* vectors that were well formed before it, every vector involved has
\* exactly the slots [0, size) live and the slots [size, capacity) raw, and
\* the operation constructed no element over a live one.
C2_LivePrefixRawSuffix ==
    (last.op # "none" /\ last.outcome = "ok" /\ last.wf) =>
        /\ \A w \in Involved : WellFormed(w)
        /\ last.over = 0

\* C3: after copy assignment a = b of distinct, well formed vectors, a has
\* the size and the elements of b, and b is unchanged, in every branch.
C3_CopyAssignCopies ==
    [][ (last'.op = "operator=(const&)" /\ last'.outcome = "ok"
            /\ last'.v # last'.o /\ last'.wf) =>
        /\ vecs'[last'.v].size_ = vecs[last'.o].size_
        /\ ContentsIn(heap', vecs'[last'.v]) = ContentsIn(heap, vecs[last'.o])
        /\ ContentsIn(heap', vecs'[last'.o]) = ContentsIn(heap, vecs[last'.o])
        /\ vecs'[last'.o].size_ = vecs[last'.o].size_ ]_vars

\* C4: destroying a well formed Vector of size n destroys each of its n live
\* elements exactly once, none twice and none skipped, and then releases the
\* buffer.
C4_DestructorDestroysEach ==
    (Called("~Vector") /\ last.wf) =>
        /\ last.destroys = last.k
        /\ ~last.ub
        /\ last.leak = 0
        /\ last.k > 0 => last.frees = 1

GrowingInsert(l) ==
    l.op \in {"Emplace", "EmplaceBack", "PushBack(T&&)"} /\ l.br = "grow"

\* Relocation copies: T is copy constructible and its move may throw.
RelocatesByCopy == traits.cc /\ ~traits.nmc

\* C5: if Reserve(n) with n > capacity, or an insertion with size == capacity,
\* fails because the allocation fails or because the k-th element copy of
\* the relocation throws, the vector's size, capacity, buffer and elements
\* (and everything else) are what they were before the call.
C5_GrowthStrongGuarantee ==
    [][ (/\ last'.outcome = "throw"
         /\ GrowingInsert(last') \/ (last'.op = "Reserve" /\ last'.br = "grow")
         /\ last'.step = "alloc" \/ (last'.step = "reloc" /\ RelocatesByCopy)) =>
        /\ vecs' = vecs
        /\ heap' = heap
        /\ last'.moved = {} ]_vars

\* The second copy of a relocation threw, after an element holding 1 was
\* copied: the copy made was destroyed, the new block released.
C5_Witness ==
    /\ Called("Reserve") /\ last.br = "grow" /\ last.outcome = "throw"
    /\ last.step = "reloc" /\ RelocatesByCopy
    /\ Contents(last.v) = <<1, 0>>
    /\ last.destroys = 1 /\ last.frees = 1

\* C6: if Resize(n) with n > size fails, in the allocation or relocation step
\* or while value-initialising a new element, the vector's size, capacity
\* and elements are what they were before the call.
C6_ResizeStrongGuarantee ==
    [][ (/\ last'.op = "Resize" /\ last'.br = "grow" /\ last'.outcome = "throw"
         /\ traits.cc \/ traits.nmc) =>
        /\ vecs'[last'.v].size_ = vecs[last'.v].size_
        /\ vecs'[last'.v].capacity_ = vecs[last'.v].capacity_
        /\ ContentsIn(heap', vecs'[last'.v]) = ContentsIn(heap, vecs[last'.v]) ]_vars

\* C7: when an element copy throws during the relocation of a growing
\* insertion, every element constructed in the new buffer during the call is
\* destroyed before the buffer is released.
C7_GrowthFailureDestroysNew ==
    (/\ GrowingInsert(last) /\ last.outcome = "throw"
     /\ last.step = "reloc" /\ RelocatesByCopy /\ last.wf) =>
        last.leak = 0

\* C8: if Emplace/Insert in place with pos != end() fails in a move
\* assignment, while shifting or while assigning the temporary, the vector
\* still has the slots [0, size) live and the slots [size, capacity) raw.
C8_InPlaceBasicGuarantee ==
    (/\ Called("Emplace") /\ last.br = "mid" /\ last.step \in {"shift", "place"}
     /\ last.outcome = "throw" /\ last.wf) =>
        WellFormed(last.v)

\* C9: when a copy assignment throws while Erase shifts the tail toward the
\* head, the caller gets the failure as an error, not a program abort, and
\* the vector still has the slots [0, size) live and [size, capacity) raw.
C9_EraseSurfacesErrors ==
    (/\ Called("Erase") /\ last.br = "copy" /\ last.step = "assign" /\ last.wf) =>
        /\ last.outcome = "throw"
        /\ WellFormed(last.v)

InsertAt(s, k, x) == SubSeq(s, 1, k) \o <<x>> \o SubSeq(s, k + 1, Len(s))

\* C10: a successful Emplace/Insert of x at begin() + k into a well formed
\* vector with contents old leaves old[0..k) ++ [x] ++ old[k..size), the size
\* one larger, and returns begin() + k of the buffer the vector then has, in
\* the growth branch and in the in-place branch.
C10_EmplaceInserts ==
    [][ (last'.op = "Emplace" /\ last'.outcome = "ok" /\ last'.wf) =>
        /\ vecs'[last'.v].size_ = vecs[last'.v].size_ + 1
        /\ ContentsIn(heap', vecs'[last'.v])
             = InsertAt(ContentsIn(heap, vecs[last'.v]), last'.k, last'.x)
        /\ last'.ret = [buf |-> vecs'[last'.v].buffer_, off |-> last'.k] ]_vars

\* An insertion in the middle that grew the vector from two elements to three.
C10_Witness ==
    /\ Called("Emplace") /\ last.br = "grow" /\ last.outcome = "ok" /\ last.wf
    /\ last.k = 1 /\ last.x = 1
    /\ Contents(last.v) = <<0, 1, 0>>
    /\ vecs[last.v].capacity_ = 4

RemoveAt(s, k) == SubSeq(s, 1, k) \o SubSeq(s, k + 2, Len(s))

\* C11: a successful Erase(begin() + k), 0 <= k < size, on a well formed
\* vector with contents old leaves old[0..k) ++ old[k+1..size), the size one
\* smaller, capacity and buffer as they were, destroys exactly one element,
\* and returns begin() + k, which is end() when k was the last index.
C11_EraseRemoves ==
    [][ (last'.op = "Erase" /\ last'.outcome = "ok" /\ last'.wf) =>
        /\ vecs'[last'.v].size_ = vecs[last'.v].size_ - 1
        /\ vecs'[last'.v].capacity_ = vecs[last'.v].capacity_
        /\ last'.moved = {}
        /\ ContentsIn(heap', vecs'[last'.v])
             = RemoveAt(ContentsIn(heap, vecs[last'.v]), last'.k)
        /\ last'.destroys = 1
        /\ last'.ret = [buf |-> vecs'[last'.v].buffer_, off |-> last'.k]
        /\ (last'.k = vecs[last'.v].size_ - 1) =>
              last'.ret.off = vecs'[last'.v].size_ ]_vars

\* The first of three elements was erased and the two after it moved down.
C11_Witness ==
    /\ Called("Erase") /\ last.outcome = "ok" /\ last.wf
    /\ last.k = 0 /\ last.destroys = 1
    /\ Contents(last.v) = <<1, 0>>
    /\ vecs[last.v].capacity_ = 4

Inserting(l) == l.op \in {"Emplace", "EmplaceBack", "PushBack(T&&)"}

\* C12: a successful PushBack/EmplaceBack/Emplace/Insert leaves the capacity
\* as it was when size < capacity, and otherwise makes it 1 when it was 0
\* and twice the previous capacity when it was positive.
C12_GrowthPolicy ==
    [][ (Inserting(last') /\ last'.outcome = "ok") =>
        vecs'[last'.v].capacity_ =
            IF vecs[last'.v].size_ < vecs[last'.v].capacity_
            THEN vecs[last'.v].capacity_
            ELSE IF vecs[last'.v].capacity_ = 0 THEN 1
            ELSE 2 * vecs[last'.v].capacity_ ]_vars

\* The third PushBack(T&&) on a vector that started empty: capacity 4.
C12_Witness ==
    /\ Called("PushBack(T&&)") /\ last.br = "grow" /\ last.outcome = "ok"
    /\ vecs[last.v].size_ = 3
    /\ vecs[last.v].capacity_ = 4

\* C13: Reserve(k) with k <= capacity, k == capacity included, is a no-op: it
\* allocates nothing, relocates nothing, and leaves size, capacity, elements
\* and begin() as they were.
C13_ReserveNoOp ==
    [][ (last'.op = "Reserve" /\ last'.k <= vecs[last'.v].capacity_
            /\ last'.outcome # "crash") =>
        /\ last'.allocs = 0
        /\ last'.outcome = "ok"
        /\ last'.moved = {}
        /\ vecs' = vecs
        /\ heap' = heap ]_vars

\* Operations that do not need more than the current capacity.
WithinCapacity ==
    \/ last'.op \in {"PopBack", "Erase"}
    \/ last'.op = "Resize" /\ last'.k <= vecs[last'.v].capacity_
    \/ Inserting(last') /\ vecs[last'.v].size_ < vecs[last'.v].capacity_
    \/ /\ last'.op = "operator=(const&)" /\ last'.v # last'.o
       /\ vecs[last'.o].size_ <= vecs[last'.v].capacity_

\* C14: an operation that does not need to grow past the current capacity
\* does not reallocate: begin() and capacity are the same before and after.
C14_NoReallocationWithinCapacity ==
    [][ (WithinCapacity /\ last'.outcome \in {"ok", "throw"}) =>
        /\ last'.moved = {}
        /\ last'.allocs = 0
        /\ vecs'[last'.v].capacity_ = vecs[last'.v].capacity_ ]_vars

\* The steps that may lower the capacity of w: a move assignment or a Swap
\* that involves it.
MayShrink(w) ==
    last'.op \in {"operator=(&&)", "Swap"} /\ w \in {last'.v, last'.o}

\* C15 as stated: from one step to the next the capacity of a vector that
\* exists before and after the step decreases only in a move assignment or a
\* Swap involving it; being the source of a move construction, like every
\* other operation, leaves it equal or larger.
C15_CapacityNeverDecreases ==
    [][ \A w \in Vecs :
          (vecs[w].alive /\ vecs'[w].alive /\ ~MayShrink(w)) =>
             vecs'[w].capacity_ >= vecs[w].capacity_ ]_vars

\* C15 amended: the capacity of a vector also drops, to 0, when the vector is
\* the source of a move construction.
C15_CapacityNeverDecreasesButMovedFrom ==
    [][ \A w \in Vecs :
          (/\ vecs[w].alive /\ vecs'[w].alive /\ ~MayShrink(w)
           /\ ~(last'.op = "Vector(&&)" /\ w = last'.o)) =>
             vecs'[w].capacity_ >= vecs[w].capacity_ ]_vars

\* A copy assignment in place from an empty vector: the target is empty and
\* keeps its two slots.
C15_Witness ==
    /\ Called("operator=(const&)") /\ last.br = "shrink" /\ last.outcome = "ok"
    /\ vecs[last.v].size_ = 0
    /\ vecs[last.v].capacity_ = 2
    /\ vecs[last.o].capacity_ = 0

\* C16: after a = std::move(b), a and b distinct and well formed, a has the
\* size and the elements b had; when b.size <= a.capacity the elements a held
\* are destroyed, each once, a's previous buffer is released, and no
\* element of it is left live in, or counted by, any vector.
C16_MoveAssignTransfers ==
    [][ (/\ last'.op = "operator=(&&)" /\ last'.outcome = "ok"
         /\ last'.v # last'.o /\ last'.wf) =>
        /\ vecs'[last'.v].size_ = vecs[last'.o].size_
        /\ ContentsIn(heap', vecs'[last'.v]) = ContentsIn(heap, vecs[last'.o])
        /\ last'.br = "steal" =>
              /\ last'.destroys = vecs[last'.v].size_
              /\ vecs[last'.v].buffer_ # nullptr => last'.frees = 1
              /\ WellFormedIn(heap', vecs'[last'.o])
              /\ vecs'[last'.o].size_ = 0 ]_vars

\* C17: after b is move constructed from a, b has the size, capacity, buffer
\* and elements a had, no element was constructed or destroyed and no block
\* allocated or released, and a has size 0, capacity 0 and a null buffer.
C17_MoveConstructTransfers ==
    [][ (last'.op = "Vector(&&)" /\ last'.outcome = "ok") =>
        /\ vecs'[last'.v] = [vecs[last'.o] EXCEPT !.alive = TRUE]
        /\ heap' = heap
        /\ ContentsIn(heap', vecs'[last'.v]) = ContentsIn(heap, vecs[last'.o])
        /\ last'.destroys = 0 /\ last'.over = 0
        /\ last'.allocs = 0 /\ last'.frees = 0
        /\ vecs'[last'.o] = EmptyVec ]_vars

\* A vector holding 1, 0 was moved from.
C17_Witness ==
    /\ Called("Vector(&&)") /\ last.outcome = "ok"
    /\ Contents(last.v) = <<1, 0>>
    /\ vecs[last.v].capacity_ = 2
    /\ vecs[last.o] = EmptyVec

\* C18: a successful Emplace/Insert/EmplaceBack/PushBack(const T&) on a well
\* formed vector with the argument v[i] inserts a copy of the value v[i] had
\* before the call, and every other element keeps its value, in the growth
\* branch and in the in-place branch.
C18_SelfReferenceSafe ==
    [][ (/\ last'.op \in {"Emplace", "EmplaceBack"} /\ last'.arg >= 0
         /\ last'.outcome = "ok" /\ last'.wf) =>
        /\ ContentsIn(heap', vecs'[last'.v])
             = InsertAt(ContentsIn(heap, vecs[last'.v]), last'.k,
                        ContentsIn(heap, vecs[last'.v])[last'.arg + 1])
        /\ ~last'.ub ]_vars

\* v = [1, 0] with a free slot, Emplace(begin(), v[0]) in place: the slot the
\* argument refers to was moved from before the new element was assigned.
C18_Witness ==
    /\ Called("Emplace") /\ last.arg = 0 /\ last.k = 0 /\ last.br = "mid"
    /\ last.outcome = "ok" /\ last.wf
    /\ Contents(last.v) = <<1, 1, 0>>

Owners(p) == {w \in AllVecs : vecs[w].alive /\ vecs[w].buffer_ = p}

\* C19: over any sequence of operations, failing ones included, no buffer is
\* released twice and none is lost: every block allocated and not released
\* is the buffer of exactly one vector, a vector's buffer is a block not yet
\* released, and once every vector is destroyed no block is left.
C19_BuffersReleasedOnce ==
    /\ ~last.dblFree
    /\ ~vecs[Tmp].alive
    /\ \A p \in Addrs : heap[p].used => Cardinality(Owners(p)) = 1
    /\ \A w \in Vecs :
          (vecs[w].alive /\ vecs[w].buffer_ # nullptr) => heap[vecs[w].buffer_].used
    /\ (\A w \in Vecs : ~vecs[w].alive) => \A p \in Addrs : ~heap[p].used

\* The last vector was destroyed and released its buffer.
C19_Witness ==
    /\ Called("~Vector") /\ last.frees = 1
    /\ \A w \in Vecs : ~vecs[w].alive
    /\ \A p \in Addrs : ~heap[p].used

\* C20: a move construction and a move assignment of RawMemory (the data_ of
\* a move constructed Vector, and of a Vector move assigned in place) give
\* the destination the buffer and capacity of the source and leave the
\* source with a null buffer and capacity 0, whatever the destination held.
C20_RawMemoryMoveResetsSource ==
    [][ (/\ \/ last'.op = "Vector(&&)"
            \/ last'.op = "operator=(&&)" /\ last'.br = "steal"
         /\ last'.outcome = "ok") =>
        /\ vecs'[last'.v].capacity_ = vecs[last'.o].capacity_
        /\ vecs[last'.o].buffer_ # nullptr =>
              heap'[vecs'[last'.v].buffer_] = heap[vecs[last'.o].buffer_]
        /\ vecs'[last'.o].buffer_ = nullptr
        /\ vecs'[last'.o].capacity_ = 0 ]_vars

====
